---- MODULE Spec2Model ----
(***************************************************************************)
(* A model of glue's sprite engine (src/glue/core.py): Image, Sprite and   *)
(* BaseManager.  A sprite is a directory of images; a manager run builds   *)
(* the Sprite objects, validates the CSS class names, and then for every   *)
(* sprite saves the image artifacts (one per ratio), the stylesheet and    *)
(* optionally the test html.                                               *)
(*                                                                         *)
(* Ratios are kept in hundredths (1.0 is 100, 1.5 is 150).  File paths are *)
(* natural numbers whose order is the order of the path strings.  A        *)
(* filename "base_pad_pseudo.ext" is the record of its tokens.  A bitmap   *)
(* is its width, its height, the set of its pixels that are TRANSPARENT    *)
(* (255, 255, 255, 0) and the set of its other pixels of alpha 0.          *)
(***************************************************************************)
EXTENDS Integers, Sequences, FiniteSets, TLC

VARIABLES config, pil, src, disk, css, sprites, pc, cur, err, io, run, hist

vars == <<config, pil, src, disk, css, sprites, pc, cur, err, io, run, hist>>

----------------------------------------------------------------------------
(* Bounds of the model *)

MaxImages == 3

MaxRuns == 2

(* Program constants *)

None == -1

RatioScale == 100

Version == "glue-0.3.1"

ORDERINGS == {"maxside", "width", "height", "area"}

ALGORITHMS == {"square", "vertical", "vertical-right", "horizontal",
               "horizontal-bottom", "diagonal"}

DEFAULT_SETTINGS == <<"padding", "margin", "algorithm", "ordering",
                      "sprite_namespace", "crop", "force", "html",
                      "ignore_filename_paddings", "ratios", "quiet",
                      "no_css", "no_img">>

DefaultPadding == <<0>>

(* sys.maxint (2^31 - 1 on a 32-bit build, 2^63 - 1 on a 64-bit one): more   *)
(* than every coordinate of a bitmap                                         *)
MaxInt == 2147483647

----------------------------------------------------------------------------
(* Helpers *)

Max(a, b) == IF a >= b THEN a ELSE b

Abs(a) == IF a >= 0 THEN a ELSE 0 - a

Reverse(s) == [i \in 1..Len(s) |-> s[Len(s) + 1 - i]]

Range(s) == {s[i] : i \in 1..Len(s)}

SetMax(S) == CHOOSE m \in S : \A n \in S : n <= m

(* helpers.round_up on the quotient num / den of two integers, den > 0 *)
round_up(num, den) ==
    IF num % den = 0 THEN num \div den ELSE (num \div den) + 1

max_ratio(cfg) == SetMax(cfg.ratios \cup {RatioScale})

(* Sprite.__init__: the sorted list of the ratios, 1.0 always among them *)
RECURSIVE SortedSet(_)
SortedSet(S) ==
    IF S = {} THEN <<>>
    ELSE LET m == CHOOSE a \in S : \A b \in S : a <= b
         IN  <<m>> \o SortedSet(S \ {m})

Ratios(cfg) == SortedSet(cfg.ratios \cup {RatioScale})

----------------------------------------------------------------------------
(* Image *)

(* PADDING_REGEXP: one to four numbers with dashes between them *)
PaddingMatch(block) == Len(block) \in 1..4

(* Image._padding_info: the block of the filename that matches               *)
(* PADDING_REGEXP, split at '-'; [] when the block of the file does not      *)
(* match                                                                     *)
padding_info(img) == IF PaddingMatch(img.pad) THEN img.pad ELSE <<>>

(* an expansion that repeats the first of three values, not the second *)
generate_padding_swapped(p) ==
    IF Len(p) = 4 THEN p
    ELSE IF Len(p) = 3 THEN p \o <<p[1]>>
    ELSE IF Len(p) = 2 THEN p \o p
    ELSE IF Len(p) = 1 THEN p \o p \o p \o p
    ELSE DefaultPadding \o DefaultPadding \o DefaultPadding \o DefaultPadding

(* Image._generate_padding *)
generate_padding(p) ==
    IF Len(p) = 4 THEN p
    ELSE IF Len(p) = 3 THEN p \o <<p[2]>>
    ELSE IF Len(p) = 2 THEN p \o p
    ELSE IF Len(p) = 1 THEN p \o p \o p \o p
    ELSE DefaultPadding \o DefaultPadding \o DefaultPadding \o DefaultPadding

(* Image.padding *)
padding(img, cfg) ==
    LET p == padding_info(img)
    IN  generate_padding(IF Len(p) = 0 \/ cfg.ignore_filename_paddings
                         THEN cfg.padding ELSE p)

horizontal_padding(img, cfg) == LET p == padding(img, cfg) IN p[2] + p[4]

vertical_padding(img, cfg) == LET p == padding(img, cfg) IN p[1] + p[3]

(* Image.image, the crop: the scan of the pixels, column by column, for the  *)
(* least and the greatest x and y of a pixel that is not TRANSPARENT; pixel  *)
(* number k is (k / height, k % height) and b is <<minx, miny, maxx, maxy>>  *)
RECURSIVE crop_scan(_, _, _)
crop_scan(img, k, b) ==
    IF k = img.width * img.height THEN b
    ELSE IF (k % img.height) > b[2] /\ (k % img.height) < b[4]
             /\ b[3] = k \div img.height
    THEN crop_scan(img, k + 1, b)
    ELSE IF <<k \div img.height, k % img.height>> \in img.clear
    THEN crop_scan(img, k + 1, b)
    ELSE crop_scan(img, k + 1,
                   <<IF (k \div img.height) < b[1] THEN k \div img.height ELSE b[1],
                     IF (k % img.height) < b[2] THEN k % img.height ELSE b[2],
                     IF (k \div img.height) > b[3] THEN k \div img.height ELSE b[3],
                     IF (k % img.height) > b[4] THEN k % img.height ELSE b[4]>>)

BoxOf(b) == <<b[1], b[2], b[3] + 1, b[4] + 1>>

(* the box (minx, miny, maxx + 1, maxy + 1) that img.crop is called with *)
crop_box(img) == BoxOf(crop_scan(img, 0, <<MaxInt, MaxInt, 0, 0>>))

(* the crop is asked for a box whose right is left of its left *)
EmptyCrop(img, cfg) == cfg.crop /\ crop_box(img)[3] < crop_box(img)[1]

(* the size of the bitmap that img.crop(box) returns: PIL moves a right or   *)
(* a bottom that is before the left or the top onto it                       *)
crop_size(box) ==
    <<IF box[3] < box[1] THEN 0 ELSE box[3] - box[1],
      IF box[4] < box[2] THEN 0 ELSE box[4] - box[2]>>

(* Image.width and Image.height: the size of Image.image *)
image_size(img, cfg) ==
    IF cfg.crop THEN crop_size(crop_box(img)) ELSE <<img.width, img.height>>

(* Image.absolute_width *)
absolute_width(img, cfg) ==
    round_up(image_size(img, cfg)[1] * RatioScale
               + (horizontal_padding(img, cfg) + 2 * cfg.margin) * max_ratio(cfg),
             RatioScale)

(* Image.absolute_height *)
absolute_height(img, cfg) ==
    round_up(image_size(img, cfg)[2] * RatioScale
               + (vertical_padding(img, cfg) + 2 * cfg.margin) * max_ratio(cfg),
             RatioScale)

(* Image.class_name: the namespace list that is joined by the separator.     *)
(* The extension is not part of it, and the padding block is not unless it   *)
(* is left in the name: when it does not match or filename paddings are      *)
(* ignored.                                                                  *)
class_name(img, name, cfg) ==
    <<"sprite">> \o (IF cfg.sprite_namespace THEN <<name>> ELSE <<>>)
                 \o <<img.base,
                      IF cfg.ignore_filename_paddings THEN img.pad
                      ELSE IF padding_info(img) = img.pad THEN <<>> ELSE img.pad,
                      img.pseudo>>

(* Image.__lt__: the ordering without its leading '-' *)
OrderingKey(cfg) ==
    IF cfg.ordering[1] = "-" THEN cfg.ordering[2] ELSE cfg.ordering[1]

SortKey(img, cfg) ==
    LET o == OrderingKey(cfg)
        w == absolute_width(img, cfg)
        h == absolute_height(img, cfg)
    IN  IF o = "width" THEN w
        ELSE IF o = "height" THEN h
        ELSE IF o = "area" THEN w * h
        ELSE Max(w, h)

(* Image.__lt__ for a known ordering, on two images with their keys        *)
(* <<key, image>>: the absolute sizes are cached properties                  *)
ImageLt(a, b) == a[1] <= b[1]

----------------------------------------------------------------------------
(* sorted(self.images, reverse=...): CPython's list sort on a list shorter   *)
(* than 64, which is one run: count_run, reverse a descending run, then      *)
(* binary insertion of the rest; reverse=True reverses before and after.     *)

RECURSIVE RunLength(_, _, _)
RunLength(a, n, desc) ==
    IF n >= Len(a) THEN n
    ELSE IF ImageLt(a[n + 1], a[n]) = desc
         THEN RunLength(a, n + 1, desc)
         ELSE n

(* count_run: <<length of the run at the head, whether it is descending>> *)
count_run(a) ==
    IF Len(a) = 1 THEN <<1, FALSE>>
    ELSE LET desc == ImageLt(a[2], a[1])
         IN  <<RunLength(a, 2, desc), desc>>

(* the bisection of binarysort: where pivot goes in a[l+1 .. r] *)
RECURSIVE Bisect(_, _, _, _)
Bisect(a, pivot, l, r) ==
    IF l >= r THEN l
    ELSE LET p == l + ((r - l) \div 2)
         IN  IF ImageLt(pivot, a[p + 1])
             THEN Bisect(a, pivot, l, p)
             ELSE Bisect(a, pivot, p + 1, r)

RECURSIVE binarysort(_, _)
binarysort(a, start) ==
    IF start > Len(a) THEN a
    ELSE LET pivot == a[start]
             l == Bisect(a, pivot, 0, start - 1)
             b == [i \in 1..Len(a) |->
                     IF i <= l THEN a[i]
                     ELSE IF i = l + 1 THEN pivot
                     ELSE IF i <= start THEN a[i - 1]
                     ELSE a[i]]
         IN  binarysort(b, start + 1)

listsort(a) ==
    IF Len(a) < 2 THEN a
    ELSE LET cr == count_run(a)
             n == cr[1]
             b == IF cr[2]
                  THEN [i \in 1..Len(a) |-> IF i <= n THEN a[n + 1 - i] ELSE a[i]]
                  ELSE a
         IN  binarysort(b, n + 1)

(* sorted(images, reverse): the images with their keys go in, the images     *)
(* come out                                                                  *)
sorted(a, reverse) ==
    LET r == IF reverse THEN Reverse(a) ELSE a
        t == listsort(r)
        u == IF reverse THEN Reverse(t) ELSE t
    IN  [i \in 1..Len(u) |-> u[i][2]]

----------------------------------------------------------------------------
(* The packing algorithms (algorithms.py).  Each takes the list of the       *)
(* absolute sizes <<w, h>> of the ordered images and gives the list of the   *)
(* positions <<x, y>>.                                                       *)

RECURSIVE SumW(_, _)
SumW(bs, n) == IF n = 0 THEN 0 ELSE SumW(bs, n - 1) + bs[n][1]

RECURSIVE SumH(_, _)
SumH(bs, n) == IF n = 0 THEN 0 ELSE SumH(bs, n - 1) + bs[n][2]

MaxW(bs) == SetMax({bs[i][1] : i \in 1..Len(bs)})

MaxH(bs) == SetMax({bs[i][2] : i \in 1..Len(bs)})

(* one row, left to right, top-aligned *)
HorizontalAlgorithm(bs) == [i \in 1..Len(bs) |-> <<SumW(bs, i - 1), 0>>]

(* one row, every box's bottom edge on the row's baseline *)
HorizontalBottomAlgorithm(bs) ==
    [i \in 1..Len(bs) |-> <<SumW(bs, i - 1), MaxH(bs) - bs[i][2]>>]

(* one column, top to bottom, left-aligned *)
VerticalAlgorithm(bs) == [i \in 1..Len(bs) |-> <<0, SumH(bs, i - 1)>>]

(* one column, right-aligned *)
VerticalRightAlgorithm(bs) ==
    [i \in 1..Len(bs) |-> <<MaxW(bs) - bs[i][1], SumH(bs, i - 1)>>]

(* a staircase: each box is offset by the sizes of all the boxes before it *)
DiagonalAlgorithm(bs) ==
    [i \in 1..Len(bs) |-> <<SumW(bs, i - 1), SumH(bs, i - 1)>>]

(* square: free rectangles <<x, y, w, h>>, best-area-fit, guillotine split,  *)
(* and growth of the canvas on the axis that keeps it closest to a square.   *)

NonEmptyRects(rs) == SelectSeq(rs, LAMBDA r : r[3] > 0 /\ r[4] > 0)

FitsIn(r, b) == b[1] <= r[3] /\ b[2] <= r[4]

Leftover(r, b) == r[3] * r[4] - b[1] * b[2]

(* the index of the free rectangle to use, 0 when none fits *)
BestFit(free, b) ==
    LET fit == {i \in 1..Len(free) : FitsIn(free[i], b)}
    IN  IF fit = {} THEN 0
        ELSE CHOOSE i \in fit :
               \A j \in fit :
                  \/ Leftover(free[i], b) < Leftover(free[j], b)
                  \/ Leftover(free[i], b) = Leftover(free[j], b) /\ i <= j

(* the box goes in the corner of r; what is left of r is cut in two *)
GuillotineSplit(r, b) ==
    NonEmptyRects(<< <<r[1] + b[1], r[2], r[3] - b[1], b[2]>>,
                     <<r[1], r[2] + b[2], r[3], r[4] - b[2]>> >>)

RemoveAt(s, i) == [j \in 1..(Len(s) - 1) |-> IF j < i THEN s[j] ELSE s[j + 1]]

GrowRight(st, b) ==
    LET W == st.w
        H == st.h
        nh == Max(H, b[2])
    IN  [w |-> W + b[1], h |-> nh,
         free |-> st.free \o NonEmptyRects(<< <<W, b[2], b[1], nh - b[2]>>,
                                              <<0, H, W, nh - H>> >>),
         pos |-> Append(st.pos, <<W, 0>>)]

GrowDown(st, b) ==
    LET W == st.w
        H == st.h
        nw == Max(W, b[1])
    IN  [w |-> nw, h |-> H + b[2],
         free |-> st.free \o NonEmptyRects(<< <<b[1], H, nw - b[1], b[2]>>,
                                              <<W, 0, nw - W, H>> >>),
         pos |-> Append(st.pos, <<0, H>>)]

SquarePlace(st, b) ==
    LET k == BestFit(st.free, b)
    IN  IF k > 0
        THEN [st EXCEPT !.free = RemoveAt(st.free, k) \o GuillotineSplit(st.free[k], b),
                        !.pos = Append(st.pos, <<st.free[k][1], st.free[k][2]>>)]
        ELSE IF Abs((st.w + b[1]) - Max(st.h, b[2]))
                  <= Abs(Max(st.w, b[1]) - (st.h + b[2]))
             THEN GrowRight(st, b)
             ELSE GrowDown(st, b)

RECURSIVE SquareFold(_, _)
SquareFold(bs, n) ==
    IF n = 0 THEN [w |-> 0, h |-> 0, free |-> <<>>, pos |-> <<>>]
    ELSE SquarePlace(SquareFold(bs, n - 1), bs[n])

SquareAlgorithm(bs) == SquareFold(bs, Len(bs)).pos

(* algorithm.process(sprite) for the algorithm the configuration names *)
AlgorithmProcess(name, bs) ==
    CASE name = "square" -> SquareAlgorithm(bs)
      [] name = "vertical" -> VerticalAlgorithm(bs)
      [] name = "vertical-right" -> VerticalRightAlgorithm(bs)
      [] name = "horizontal" -> HorizontalAlgorithm(bs)
      [] name = "horizontal-bottom" -> HorizontalBottomAlgorithm(bs)
      [] name = "diagonal" -> DiagonalAlgorithm(bs)

----------------------------------------------------------------------------
(* Sprite *)

(* sorted(self.images, key=lambda i: i.path): paths are distinct strings *)
RECURSIVE SortedByPath(_)
SortedByPath(imgs) ==
    IF Len(imgs) = 0 THEN <<>>
    ELSE LET k == CHOOSE i \in 1..Len(imgs) :
                     \A j \in 1..Len(imgs) :
                        imgs[i].path < imgs[j].path
                        \/ (imgs[i].path = imgs[j].path /\ i <= j)
         IN  <<imgs[k]>> \o SortedByPath(RemoveAt(imgs, k))

(* a hash that reads the images in the order of the list *)
sprite_hash_unsorted(imgs, cfg) ==
    LET keys == SelectSeq(DEFAULT_SETTINGS,
                          LAMBDA k : k \notin {"html", "quiet", "force"})
    IN  << [i \in 1..Len(imgs) |-> <<imgs[i].path, imgs[i].data>>],
           [i \in 1..Len(keys) |-> <<keys[i], cfg[keys[i]]>>] >>

(* Sprite.hash: the text that is digested, as the list of its parts *)
sprite_hash(imgs, cfg) ==
    LET byPath == SortedByPath(imgs)
        keys == SelectSeq(DEFAULT_SETTINGS,
                          LAMBDA k : k \notin {"html", "quiet", "force"})
    IN  << [i \in 1..Len(byPath) |-> <<byPath[i].path, byPath[i].data>>],
           [i \in 1..Len(keys) |-> <<keys[i], cfg[keys[i]]>>] >>

(* '%.1f' % ratio, in tenths: the nearest tenth, and the even one of the two *)
(* when the ratio is halfway between them.  A ratio of the model that ends   *)
(* in 5 hundredths is x.25 or x.75, which a float holds exactly.             *)
Tenths(ratio) ==
    IF ratio % 10 < 5 THEN ratio \div 10
    ELSE IF ratio % 10 > 5 THEN (ratio \div 10) + 1
    ELSE IF (ratio \div 10) % 2 = 0 THEN ratio \div 10
    ELSE (ratio \div 10) + 1

(* Sprite.__get_reference: "" for 1.0, "@Nx" for a whole ratio, "@N.Dx"      *)
(* (one decimal) for the others                                              *)
get_reference(ratio) ==
    IF ratio % RatioScale = 0
    THEN IF ratio = RatioScale THEN <<>> ELSE <<"i", ratio \div RatioScale>>
    ELSE <<"f", Tenths(ratio)>>

(* Sprite.image_path: the sprite's name and the reference of the ratio *)
image_path(s, ratio) == <<s, get_reference(ratio)>>

(* Sprite.canvas_size *)
RECURSIVE CanvasFold(_, _, _)
CanvasFold(imgs, n, cfg) ==
    IF n = 0 THEN <<0, 0>>
    ELSE LET c == CanvasFold(imgs, n - 1, cfg)
             x == imgs[n].x + absolute_width(imgs[n], cfg)
             y == imgs[n].y + absolute_height(imgs[n], cfg)
         IN  <<IF c[1] < x THEN x ELSE c[1], IF c[2] < y THEN y ELSE c[2]>>

(* a canvas that forgets the padding of the images *)
canvas_size_unpadded(imgs, cfg) ==
    <<SetMax({imgs[i].x + imgs[i].width : i \in 1..Len(imgs)}),
      SetMax({imgs[i].y + imgs[i].height : i \in 1..Len(imgs)})>>

canvas_size(imgs, cfg) == CanvasFold(imgs, Len(imgs), cfg)

(* Sprite.validate: the images whose class name another image of the sprite  *)
(* has too, each as <<sprite name, path>>                                    *)
SpriteDup(sp, cfg) ==
    LET shared(i) ==
            \E j \in 1..Len(sp.images) :
                /\ j # i
                /\ class_name(sp.images[j], sp.name, cfg)
                     = class_name(sp.images[i], sp.name, cfg)
        idx == SelectSeq([i \in 1..Len(sp.images) |-> i], shared)
    IN  [n \in 1..Len(idx) |-> <<sp.name, sp.images[idx[n]].path>>]

(* BaseManager.validate: the class names of all the sprites, and the images  *)
(* whose class name occurs more than once among them                         *)
RECURSIVE ManagerDupFrom(_, _, _)
ManagerDupFrom(sps, k, cfg) ==
    IF k > Len(sps) THEN <<>>
    ELSE LET sp == sps[k]
             shared(i) ==
                 \E t \in 1..Len(sps) : \E j \in 1..Len(sps[t].images) :
                     /\ <<t, j>> # <<k, i>>
                     /\ class_name(sps[t].images[j], sps[t].name, cfg)
                          = class_name(sp.images[i], sp.name, cfg)
             idx == SelectSeq([i \in 1..Len(sp.images) |-> i], shared)
         IN  [n \in 1..Len(idx) |-> <<sp.name, sp.images[idx[n]].path>>]
               \o ManagerDupFrom(sps, k + 1, cfg)

ManagerDup(sps, cfg) == ManagerDupFrom(sps, 1, cfg)

(* the bytes of a file that is not an image *)
NotAnImage == 2

NoErr == [kind |-> "none", dup |-> <<>>]

Raise(kind) == [kind |-> kind, dup |-> <<>>]

NoHash == <<>>

(* a PNG text chunk that the file does not have *)
NoText == ""

(* an output file: whether it exists, whether PIL can open it, its Software  *)
(* and Comment texts, the size of its bitmap, and whether it refuses to be   *)
(* opened for writing                                                        *)
Missing ==
    [exists |-> FALSE, readable |-> FALSE, software |-> NoText, comment |-> NoHash,
     size |-> <<0, 0>>, locked |-> FALSE]

(* canvas.save(sprite_image_path, pnginfo=meta) *)
Saved(hash, size) ==
    [exists |-> TRUE, readable |-> TRUE, software |-> Version, comment |-> hash,
     size |-> size, locked |-> FALSE]

(* Image.__init__ *)
NewImage(f) ==
    [path |-> f.path, base |-> f.base, pad |-> f.pad, pseudo |-> f.pseudo,
     data |-> f.data, width |-> f.width, height |-> f.height,
     clear |-> f.clear, hidden |-> f.hidden,
     x |-> None, y |-> None, decoded |-> FALSE]

(* Sprite.__init__ and Sprite._locate_images *)
NewSprite(name, files) ==
    [name |-> name, images |-> [i \in 1..Len(files) |-> NewImage(files[i])],
     processed |-> FALSE, hash |-> NoHash]

(* the cached property Sprite.hash: computed at its first use *)
WithHash(sp, cfg) ==
    IF sp.hash = NoHash THEN [sp EXCEPT !.hash = sprite_hash(sp.images, cfg)]
    ELSE sp

(* the images of a sprite with their ordering keys, as Image.__lt__ reads   *)
(* them (a list of one image is never compared)                              *)
Keyed(imgs, cfg) ==
    [i \in 1..Len(imgs) |->
       <<IF Len(imgs) >= 2 THEN SortKey(imgs[i], cfg) ELSE 0, imgs[i]>>]

AbsoluteSizes(imgs, cfg) ==
    [i \in 1..Len(imgs) |->
       <<absolute_width(imgs[i], cfg), absolute_height(imgs[i], cfg)>>]

(* algorithm.process(sprite) sets x and y of every image; reading the        *)
(* absolute size of an image decodes it                                      *)
Placed(imgs, pos) ==
    [i \in 1..Len(imgs) |->
       [imgs[i] EXCEPT !.x = pos[i][1], !.y = pos[i][2], !.decoded = TRUE]]

Pack(imgs, cfg) ==
    Placed(imgs, AlgorithmProcess(cfg.algorithm, AbsoluteSizes(imgs, cfg)))

(* What img.crop does with the box (maxint, maxint, 1, 1) of a bitmap whose  *)
(* every pixel is TRANSPARENT depends on the build of PIL: the crop is lazy  *)
(* and gives a bitmap of size (0, 0), whose load (at the paste into the      *)
(* canvas) passes the box to C and raises OverflowError when maxint is wider *)
(* than a C int; or the crop is eager and raises there.                      *)
PilBuilds == {"clamps", "raises_at_load", "raises_at_crop"}

(* Image.image: PImage.open fails on bytes that are not an image *)
Decodable(img) == img.data # NotAnImage

(* a process() that packs the sprite without opening its images *)
process_run_blind(sp, cfg) ==
    IF cfg.algorithm \notin ALGORITHMS
    THEN [sp |-> sp, err |-> Raise("InvalidImageAlgorithmError")]
    ELSE IF Len(sp.images) >= 2 /\ OrderingKey(cfg) \notin ORDERINGS
    THEN [sp |-> sp, err |-> Raise("InvalidImageOrderingError")]
    ELSE [sp |-> [sp EXCEPT
                    !.images = Pack(sorted(Keyed(sp.images, cfg),
                                           cfg.ordering[1] # "-"), cfg),
                    !.processed = TRUE],
          err |-> NoErr]

(* Sprite.process when the sprite is not processed yet.  The sizes of the    *)
(* images are read by the comparisons of the sort and by the algorithm,      *)
(* and reading a size decodes the image: an image that cannot be decoded     *)
(* raises there, before self.images and _processed are assigned.             *)
process_run(sp, cfg) ==
    IF cfg.algorithm \notin ALGORITHMS
    THEN [sp |-> sp, err |-> Raise("InvalidImageAlgorithmError")]
    ELSE IF Len(sp.images) >= 2 /\ OrderingKey(cfg) \notin ORDERINGS
    THEN [sp |-> sp, err |-> Raise("InvalidImageOrderingError")]
    ELSE IF \E i \in 1..Len(sp.images) : ~Decodable(sp.images[i])
    THEN [sp |-> sp, err |-> Raise("PILUnavailableError")]
    ELSE IF pil = "raises_at_crop"
            /\ \E i \in 1..Len(sp.images) : EmptyCrop(sp.images[i], cfg)
    THEN [sp |-> sp, err |-> Raise("OverflowError")]
    ELSE [sp |-> [sp EXCEPT
                    !.images = Pack(sorted(Keyed(sp.images, cfg),
                                           cfg.ordering[1] # "-"), cfg),
                    !.processed = TRUE],
          err |-> NoErr]

(* a process() without the _processed guard *)
process_unguarded(sp, cfg) == process_run(sp, cfg)

(* a process() that sorts the images and never calls the algorithm *)
process_unpacked(sp, cfg) ==
    IF sp.processed THEN [sp |-> sp, err |-> NoErr]
    ELSE IF cfg.algorithm \notin ALGORITHMS
    THEN [sp |-> sp, err |-> Raise("InvalidImageAlgorithmError")]
    ELSE IF Len(sp.images) >= 2 /\ OrderingKey(cfg) \notin ORDERINGS
    THEN [sp |-> sp, err |-> Raise("InvalidImageOrderingError")]
    ELSE [sp |-> [sp EXCEPT
                    !.images = sorted(Keyed(sp.images, cfg), cfg.ordering[1] # "-"),
                    !.processed = TRUE],
          err |-> NoErr]

(* Sprite.process: the sprite afterwards and the error raised *)
process(sp, cfg) ==
    IF sp.processed THEN [sp |-> sp, err |-> NoErr] ELSE process_run(sp, cfg)

(* Sprite.save_image: whether the artifact of a ratio is up to date; the      *)
(* sprite's hash is read only when the file exists and carries the version   *)
SoftwareOk(s, ratio, cfg, dsk) ==
    /\ ~cfg.force
    /\ dsk[image_path(s, ratio)].exists
    /\ dsk[image_path(s, ratio)].readable
    /\ dsk[image_path(s, ratio)].software = Version

(* the body of the try of the freshness check on the file of a ratio: the   *)
(* exception it raises, "none" when it reaches already_created = True        *)
check_raises(f, hash, cfg) ==
    IF cfg.force THEN "AssertionError"
    ELSE IF ~f.exists \/ ~f.readable THEN "IOError"
    ELSE IF f.software = NoText THEN "KeyError"
    ELSE IF f.software # Version THEN "AssertionError"
    ELSE IF f.comment = NoHash THEN "KeyError"
    ELSE IF f.comment # hash THEN "AssertionError"
    ELSE "none"

(* a handler for the failed asserts only *)
except_AssertionError(kind) == kind = "AssertionError"

(* except Exception: the handler of the two freshness checks *)
except_Exception(kind) == kind \in {"AssertionError", "IOError", "KeyError"}

already_created(s, ratio, hash, cfg, dsk) ==
    check_raises(dsk[image_path(s, ratio)], hash, cfg) = "none"

(* the exceptions of the checks of a sprite's ratios, in the order of the    *)
(* ratios, that the handler does not catch                                   *)
Uncaught(s, hash, cfg, dsk) ==
    SelectSeq([i \in 1..Len(Ratios(cfg)) |->
                 check_raises(dsk[image_path(s, Ratios(cfg)[i])], hash, cfg)],
              LAMBDA k : k # "none" /\ ~except_Exception(k))

(* the exceptions of the checks that the handler catches, by ratio *)
Caught(s, hash, cfg, dsk) ==
    {c \in {<<s, r, check_raises(dsk[image_path(s, r)], hash, cfg)>> :
               r \in Range(Ratios(cfg))} :
        c[3] # "none" /\ except_Exception(c[3])}

(* a check that finds every ratio stale *)
ratios_to_process_all(s, hash, cfg, dsk) == Ratios(cfg)

ratios_to_process(s, hash, cfg, dsk) ==
    SelectSeq(Ratios(cfg), LAMBDA r : ~already_created(s, r, hash, cfg, dsk))

(* the size of the bitmap saved for a ratio of a canvas *)
SavedSize(ratio, c, cfg) ==
    IF max_ratio(cfg) # ratio
    THEN <<round_up(c[1] * ratio, max_ratio(cfg)),
           round_up(c[2] * ratio, max_ratio(cfg))>>
    ELSE c

(* the last ratio of the list that is saved at a path *)
LastRatioAt(s, p, todo) ==
    CHOOSE r \in Range(todo) :
       /\ image_path(s, r) = p
       /\ \A q \in Range(todo) : image_path(s, q) = p => q <= r

SaveResult(sp, dsk, wrote, bitmaps, opened, e) ==
    [sp |-> sp, disk |-> dsk, wrote |-> wrote, bitmaps |-> bitmaps,
     opened |-> opened, err |-> e]

(* a bitmap made by resizing the bitmap of the ratio above *)
BitmapChained(s, ratio, canvas, cfg) ==
    [sprite |-> s, ratio |-> ratio,
     of |-> IF max_ratio(cfg) # ratio THEN SavedSize(ratio + 50, canvas, cfg) ELSE canvas,
     resized |-> max_ratio(cfg) # ratio,
     size |-> IF max_ratio(cfg) # ratio
              THEN <<round_up(SavedSize(ratio + 50, canvas, cfg)[1] * ratio, ratio + 50),
                     round_up(SavedSize(ratio + 50, canvas, cfg)[2] * ratio, ratio + 50)>>
              ELSE canvas]

(* the bitmap saved for a ratio: the canvas it is made of, whether it is     *)
(* resized (canvas.resize in pil_save), and its size                         *)
Bitmap(s, ratio, canvas, cfg) ==
    [sprite |-> s, ratio |-> ratio, of |-> canvas,
     resized |-> max_ratio(cfg) # ratio, size |-> SavedSize(ratio, canvas, cfg)]

(* the place in ratios_to_process of the first ratio whose file cannot be    *)
(* opened for writing; past the end when there is none                       *)
FirstLocked(s, todo, dsk) ==
    IF \E i \in 1..Len(todo) : dsk[image_path(s, todo[i])].locked
    THEN CHOOSE i \in 1..Len(todo) :
            /\ dsk[image_path(s, todo[i])].locked
            /\ \A j \in 1..(i - 1) : ~dsk[image_path(s, todo[j])].locked
    ELSE Len(todo) + 1

(* a save that leaves the Comment text out *)
SaveRatiosNoComment(s, sp, canvas, todo, cfg, dsk) ==
    SaveResult(sp,
               [p \in DOMAIN dsk |->
                  IF \E r \in Range(todo) : image_path(s, r) = p
                  THEN Saved(NoHash, canvas)
                  ELSE dsk[p]],
               {<<"img", image_path(s, r)>> : r \in Range(todo)},
               {Bitmap(s, r, canvas, cfg) : r \in Range(todo)},
               ~cfg.force, NoErr)

(* the loop over the ratios that were saved before the loop ended *)
SaveDone(s, sp, canvas, done, cfg, dsk, e) ==
    SaveResult(sp,
               [p \in DOMAIN dsk |->
                  IF \E r \in Range(done) : image_path(s, r) = p
                  THEN Saved(sp.hash, Bitmap(s, LastRatioAt(s, p, done), canvas, cfg).size)
                  ELSE dsk[p]],
               {<<"img", image_path(s, r)>> : r \in Range(done)},
               {Bitmap(s, r, canvas, cfg) : r \in Range(done)},
               ~cfg.force, e)

(* Sprite.save_image, the loop over ratios_to_process: every ratio is saved  *)
(* with the Software and Comment text, in the order of the list; an IOError  *)
(* of a save ends the loop                                                   *)
SaveRatios(s, sp, canvas, todo, cfg, dsk) ==
    SaveDone(s, sp, canvas, SubSeq(todo, 1, FirstLocked(s, todo, dsk) - 1), cfg, dsk,
             IF FirstLocked(s, todo, dsk) <= Len(todo) THEN Raise("IOError") ELSE NoErr)

(* Sprite.save_image after self.process() *)
Render(s, pr, todo, cfg, dsk) ==
    IF pr.err # NoErr
    THEN SaveResult(pr.sp, dsk, {}, {}, ~cfg.force, pr.err)
    ELSE IF pil = "raises_at_load"
            /\ \E i \in 1..Len(pr.sp.images) : EmptyCrop(pr.sp.images[i], cfg)
    THEN SaveResult(pr.sp, dsk, {}, {}, ~cfg.force, Raise("OverflowError"))
    ELSE SaveRatios(s, WithHash(pr.sp, cfg), canvas_size(pr.sp.images, cfg),
                    todo, cfg, dsk)

(* a save_image that saves every ratio as soon as one is to be saved *)
SaveStaleAll(s, sp, todo, cfg, dsk) ==
    IF todo = <<>>
    THEN SaveResult(sp, dsk, {}, {}, ~cfg.force, NoErr)
    ELSE Render(s, process(sp, cfg), Ratios(cfg), cfg, dsk)

(* Sprite.save_image after the list of the ratios to process is known *)
SaveStale(s, sp, todo, cfg, dsk) ==
    IF todo = <<>>
    THEN SaveResult(sp, dsk, {}, {}, ~cfg.force, NoErr)
    ELSE Render(s, process(sp, cfg), todo, cfg, dsk)

(* Sprite.save_image once the checks have read (or not read) the hash *)
CheckAndSave(s, sp, cfg, dsk) ==
    IF Uncaught(s, sp.hash, cfg, dsk) # <<>>
    THEN SaveResult(sp, dsk, {}, {}, ~cfg.force,
                    Raise(Uncaught(s, sp.hash, cfg, dsk)[1]))
    ELSE SaveStale(s, sp, ratios_to_process(s, sp.hash, cfg, dsk), cfg, dsk)

(* Sprite.save_image *)
save_image(s, sp, cfg, dsk) ==
    IF cfg.no_img
    THEN SaveResult(sp, dsk, {}, {}, FALSE, NoErr)
    ELSE CheckAndSave(s,
                      IF \E r \in Range(Ratios(cfg)) : SoftwareOk(s, r, cfg, dsk)
                      THEN WithHash(sp, cfg) ELSE sp,
                      cfg, dsk)

CssResult(sp, cssf, wrote, opened, e) ==
    [sp |-> sp, css |-> cssf, wrote |-> wrote, opened |-> opened, err |-> e]

(* Sprite.save_css after self.process() *)
WriteCss(s, pr, cfg, cssf) ==
    IF pr.err # NoErr
    THEN CssResult(pr.sp, cssf, {}, ~cfg.force, pr.err)
    ELSE CssResult(pr.sp,
                   [cssf EXCEPT ![s] = [exists |-> TRUE,
                                        line |-> <<Version, pr.sp.hash>>]],
                   {<<"css", s>>}, ~cfg.force, NoErr)

(* Sprite.save_css once hash_line is computed: the first line of the         *)
(* stylesheet is the version and the hash                                    *)
(* the body of the try of save_css: the exception it raises, "none" when it  *)
(* reaches the return                                                        *)
css_check_raises(f, hash, cfg) ==
    IF cfg.force THEN "AssertionError"
    ELSE IF ~f.exists THEN "IOError"
    ELSE IF f.line # <<Version, hash>> THEN "AssertionError"
    ELSE "none"

CheckAndSaveCss(s, sp, cfg, cssf) ==
    IF css_check_raises(cssf[s], sp.hash, cfg) = "none"
    THEN CssResult(sp, cssf, {}, ~cfg.force, NoErr)
    ELSE IF ~except_Exception(css_check_raises(cssf[s], sp.hash, cfg))
    THEN CssResult(sp, cssf, {}, ~cfg.force,
                   Raise(css_check_raises(cssf[s], sp.hash, cfg)))
    ELSE WriteCss(s, process(sp, cfg), cfg, cssf)

(* Sprite.save_css *)
save_css(s, sp, cfg, cssf) ==
    IF cfg.no_css
    THEN CssResult(sp, cssf, {}, FALSE, NoErr)
    ELSE CheckAndSaveCss(s, WithHash(sp, cfg), cfg, cssf)

----------------------------------------------------------------------------
(* The inputs of a run: the source directories and the configuration *)

MaxSprites == 2

Sizes == {<<1, 1>>, <<2, 1>>, <<1, 3>>}

BaseNames == <<"a", "b", "c", "d", "e", "f">>

AllOrderings ==
    {<<o>> : o \in ORDERINGS \cup {"bogus"}}
      \cup {<<"-", o>> : o \in ORDERINGS \cup {"bogus"}}

File(path, base, pad, pseudo, w, h) ==
    [path |-> path, base |-> base, pad |-> pad, pseudo |-> pseudo,
     data |-> 0, width |-> w, height |-> h, clear |-> {}, hidden |-> {}]

(* cat.png *)
DirCat == << File(1, "cat", <<>>, "", 1, 1) >>

(* cow_1.png and cow_2-1.png: one class name *)
DirCows == << File(1, "cow", <<1>>, "", 2, 1), File(2, "cow", <<2, 1>>, "", 1, 2) >>

(* cat.png, cat_hover.png and dog_1-0-2.png *)
DirPets == << File(1, "cat", <<>>, "", 2, 2), File(2, "cat", <<>>, ":hover", 2, 2),
              File(3, "dog", <<1, 0, 2>>, "", 1, 1) >>

Dirs == {DirCat, DirCows, DirPets}

BaseConfig ==
    [padding |-> <<0>>, margin |-> 0, algorithm |-> "square",
     ordering |-> <<"maxside">>, sprite_namespace |-> TRUE, crop |-> FALSE,
     force |-> FALSE, html |-> FALSE, ignore_filename_paddings |-> FALSE,
     ratios |-> {}, quiet |-> FALSE, no_css |-> FALSE, no_img |-> FALSE]

(* cat.png and dog.png, and dog.png is not an image *)
DirBroken == << File(1, "cat", <<>>, "", 1, 1),
                [File(2, "dog", <<>>, "", 1, 1) EXCEPT !.data = NotAnImage] >>

(* the ratios a configuration of the model may name *)
RatioUniverse == {100, 120, 125, 150, 200}

TypeOK ==
    /\ pc \in {"start", "validate", "manager_validate", "save_image", "save_css",
               "save_html", "done", "failed"}
    /\ run \in 1..MaxRuns
    /\ cur \in 0..Len(src)
    /\ Len(sprites) \in {0, Len(src)}

InitState ==
    /\ pil = "clamps"
    /\ disk = [p \in {image_path(s, r) : s \in 1..Len(src), r \in RatioUniverse}
                 |-> Missing]
    /\ css = [s \in 1..Len(src) |-> [exists |-> FALSE, line |-> <<>>]]
    /\ sprites = <<>>
    /\ pc = "start"
    /\ cur = 0
    /\ err = NoErr
    /\ io = [read |-> FALSE, opened |-> FALSE, wrote |-> {}, bitmaps |-> {}, caught |-> {}]
    /\ run = 1
    /\ hist = [hashes |-> <<>>, ok |-> FALSE, changed |-> FALSE]

(* the pipeline on one to MaxSprites directories *)
Init ==
    /\ \E n \in 1..MaxSprites : src \in [1..n -> Dirs]
    /\ \E a \in {"horizontal", "bogus"},
          o \in {<<"maxside">>, <<"-", "width">>, <<"bogus">>},
          f \in BOOLEAN, h \in BOOLEAN, ns \in BOOLEAN,
          rs \in {{}, {150, 200}},
          no \in {<<FALSE, FALSE>>, <<TRUE, FALSE>>, <<FALSE, TRUE>>} :
         config = [BaseConfig EXCEPT !.algorithm = a, !.ordering = o, !.force = f,
                                     !.html = h, !.sprite_namespace = ns,
                                     !.ratios = rs, !.margin = 1,
                                     !.no_img = no[1], !.no_css = no[2]]
    /\ InitState

(* one directory of up to MaxImages images, every algorithm and ordering *)
InitPack ==
    /\ \E n \in 1..MaxImages : \E sz \in [1..n -> Sizes] :
         src = << [i \in 1..n |->
                     File(i, BaseNames[i], <<>>, "", sz[i][1], sz[i][2])] >>
    /\ \E a \in ALGORITHMS \cup {"bogus"}, o \in AllOrderings :
         config = [BaseConfig EXCEPT !.algorithm = a, !.ordering = o, !.html = TRUE,
                                     !.padding = <<1>>, !.ratios = {150}]
    /\ InitState

(* the files that an earlier run, of this or of another version, or        *)
(* anything else, has left at the path of an artifact                        *)
PriorKinds == {"missing", "unreadable", "no_software", "old_version",
               "no_comment", "other_digest", "fresh"}

Prior(kind, hash) ==
    CASE kind = "missing" -> Missing
      [] kind = "unreadable" -> [Missing EXCEPT !.exists = TRUE]
      [] kind = "no_software" -> [Saved(hash, <<1, 1>>) EXCEPT !.software = NoText]
      [] kind = "old_version" -> [Saved(hash, <<1, 1>>) EXCEPT !.software = "glue-0.3"]
      [] kind = "no_comment" -> Saved(NoHash, <<1, 1>>)
      [] kind = "other_digest" -> Saved(<<"other">>, <<1, 1>>)
      [] kind = "fresh" -> Saved(hash, <<1, 1>>)

(* one or two directories over output files of every kind, one of which at  *)
(* most cannot be written                                                    *)
InitFault ==
    /\ src \in {<<d>> : d \in {DirCat, DirPets, DirBroken}} \cup {<<DirCat, DirBroken>>}
    /\ \E f \in BOOLEAN, rs \in {{150, 200}, {120, 125}} :
         config = [BaseConfig EXCEPT !.algorithm = "vertical", !.force = f,
                                     !.html = TRUE, !.ratios = rs]
    /\ \E k1 \in PriorKinds, k2 \in {"missing", "unreadable", "fresh"},
          k3 \in {"missing", "fresh"}, lk \in {0} \cup RatioUniverse :
         disk = [p \in {image_path(s, r) : s \in 1..Len(src),
                                           r \in Range(Ratios(config))} |->
                   LET k == CASE p[2] = get_reference(Ratios(config)[1]) -> k1
                              [] p[2] = get_reference(Ratios(config)[2]) -> k2
                              [] OTHER -> k3
                       h == sprite_hash([i \in 1..Len(src[p[1]]) |-> NewImage(src[p[1]][i])],
                                        config)
                   IN  [Prior(k, h) EXCEPT !.locked = (p[2] = get_reference(lk))]]
    /\ pil = "clamps"
    /\ css = [s \in 1..Len(src) |-> [exists |-> FALSE, line |-> <<>>]]
    /\ sprites = <<>>
    /\ pc = "start"
    /\ cur = 0
    /\ err = NoErr
    /\ io = [read |-> FALSE, opened |-> FALSE, wrote |-> {}, bitmaps |-> {}, caught |-> {}]
    /\ run = 1
    /\ hist = [hashes |-> <<>>, ok |-> FALSE, changed |-> FALSE]

Pixels(w, h) == (0..(w - 1)) \X (0..(h - 1))

(* the padding blocks of a filename: none, "5", "1-2", "1-2-3", "1-2-3-4",   *)
(* and "1-2-3-4-5", which PADDING_REGEXP does not match                      *)
PadBlocks == {<<>>, <<5>>, <<1, 2>>, <<1, 2, 3>>, <<1, 2, 3, 4>>, <<1, 2, 3, 4, 5>>}

(* one directory of one image: a filename with any padding block under any  *)
(* configured padding, or a bitmap of any pixels with and without the crop   *)
InitAsset ==
    /\ \/ /\ \E pad \in PadBlocks : src = << << File(1, "cow", pad, "", 1, 1) >> >>
          /\ \E cp \in {<<7>>, <<6, 8>>, <<>>}, ig \in BOOLEAN :
               config = [BaseConfig EXCEPT !.algorithm = "horizontal", !.html = TRUE,
                                           !.ratios = {150}, !.padding = cp,
                                           !.ignore_filename_paddings = ig]
          /\ pil = "clamps"
       \/ /\ \E sz \in {<<2, 2>>, <<3, 1>>} :
             \E cl \in SUBSET Pixels(sz[1], sz[2]) :
               \E hd \in SUBSET (Pixels(sz[1], sz[2]) \ cl) :
                  src = << << [File(1, "cat", <<>>, "", sz[1], sz[2])
                                 EXCEPT !.clear = cl, !.hidden = hd] >> >>
          /\ \E cr \in BOOLEAN :
               config = [BaseConfig EXCEPT !.algorithm = "horizontal", !.html = TRUE,
                                           !.ratios = {150}, !.crop = cr]
          /\ pil \in PilBuilds
    /\ disk = [p \in {image_path(s, r) : s \in 1..Len(src), r \in RatioUniverse}
                 |-> Missing]
    /\ css = [s \in 1..Len(src) |-> [exists |-> FALSE, line |-> <<>>]]
    /\ sprites = <<>>
    /\ pc = "start"
    /\ cur = 0
    /\ err = NoErr
    /\ io = [read |-> FALSE, opened |-> FALSE, wrote |-> {}, bitmaps |-> {}, caught |-> {}]
    /\ run = 1
    /\ hist = [hashes |-> <<>>, ok |-> FALSE, changed |-> FALSE]

----------------------------------------------------------------------------
(* A manager run: BaseManager.process and BaseManager.save *)

Fail(e) ==
    /\ err' = e
    /\ pc' = "failed"
    /\ cur' = cur

(* ProjectSpriteManager.process / SimpleSpriteManager.process: a Sprite for  *)
(* every directory; Image.__init__ reads every source file                   *)
Construct ==
    /\ pc = "start"
    /\ sprites' = [s \in 1..Len(src) |-> NewSprite(s, src[s])]
    /\ io' = [io EXCEPT !.read = TRUE]
    /\ pc' = "validate"
    /\ cur' = 1
    /\ UNCHANGED <<config, pil, src, disk, css, err, run, hist>>

(* BaseManager.save, first loop: sprite.validate() *)
Validate ==
    /\ pc = "validate"
    /\ \E dup \in {SpriteDup(sprites[cur], config)} :
           IF dup # <<>>
           THEN Fail([kind |-> "MultipleImagesWithSameNameError", dup |-> dup])
           ELSE /\ err' = err
                /\ cur' = IF cur < Len(sprites) THEN cur + 1 ELSE 0
                /\ pc' = IF cur < Len(sprites) THEN "validate" ELSE "manager_validate"
    /\ UNCHANGED <<config, pil, src, disk, css, sprites, io, run, hist>>

(* a save() that does not look for collisions between sprites *)
ManagerValidateSkipped ==
    /\ pc = "manager_validate"
    /\ err' = err
    /\ cur' = 1
    /\ pc' = "save_image"
    /\ UNCHANGED <<config, pil, src, disk, css, sprites, io, run, hist>>

(* BaseManager.save: self.validate() *)
ManagerValidate ==
    /\ pc = "manager_validate"
    /\ \E dup \in {ManagerDup(sprites, config)} :
           IF dup # <<>>
           THEN Fail([kind |-> "MultipleImagesWithSameNameError", dup |-> dup])
           ELSE /\ err' = err
                /\ cur' = 1
                /\ pc' = "save_image"
    /\ UNCHANGED <<config, pil, src, disk, css, sprites, io, run, hist>>

(* BaseManager.save, second loop: sprite.save_image() *)
SaveImage ==
    /\ pc = "save_image"
    /\ \E r \in {save_image(cur, sprites[cur], config, disk)} :
           /\ sprites' = [sprites EXCEPT ![cur] = r.sp]
           /\ disk' = r.disk
           /\ io' = [io EXCEPT !.opened = @ \/ r.opened, !.wrote = @ \cup r.wrote,
                                !.bitmaps = @ \cup r.bitmaps,
                                !.caught = @ \cup
                                   IF config.no_img THEN {}
                                   ELSE Caught(cur, sprite_hash(sprites[cur].images, config),
                                               config, disk)]
           /\ IF r.err # NoErr THEN Fail(r.err)
              ELSE /\ err' = err
                   /\ cur' = cur
                   /\ pc' = "save_css"
    /\ UNCHANGED <<config, pil, src, css, run, hist>>

NextSprite ==
    /\ cur' = IF cur < Len(sprites) THEN cur + 1 ELSE 0
    /\ pc' = IF cur < Len(sprites) THEN "save_image" ELSE "done"

(* BaseManager.save, second loop: sprite.save_css() *)
SaveCss ==
    /\ pc = "save_css"
    /\ \E r \in {save_css(cur, sprites[cur], config, css)} :
           /\ sprites' = [sprites EXCEPT ![cur] = r.sp]
           /\ css' = r.css
           /\ io' = [io EXCEPT !.opened = @ \/ r.opened, !.wrote = @ \cup r.wrote]
           /\ IF r.err # NoErr THEN Fail(r.err)
              ELSE /\ err' = err
                   /\ IF config.html
                      THEN cur' = cur /\ pc' = "save_html"
                      ELSE NextSprite
    /\ UNCHANGED <<config, pil, src, disk, run, hist>>

(* BaseManager.save, second loop: sprite.save_html() *)
SaveHtml ==
    /\ pc = "save_html"
    /\ io' = [io EXCEPT !.wrote = @ \cup {<<"html", cur>>}]
    /\ NextSprite
    /\ UNCHANGED <<config, pil, src, disk, css, sprites, err, run, hist>>

(* the program is started again: the objects of the last run are gone, the   *)
(* files are still there                                                     *)
NewRun ==
    /\ pc \in {"done", "failed"}
    /\ run < MaxRuns
    /\ run' = run + 1
    /\ hist' = [hashes |-> [s \in 1..Len(sprites) |-> sprites[s].hash],
                ok |-> pc = "done", changed |-> FALSE]
    /\ sprites' = <<>>
    /\ pc' = "start"
    /\ cur' = 0
    /\ err' = NoErr
    /\ io' = [read |-> FALSE, opened |-> FALSE, wrote |-> {}, bitmaps |-> {},
              caught |-> {}]
    /\ UNCHANGED <<config, pil, src, disk, css>>

(* between two runs a source image is edited *)
EditSource ==
    /\ pc = "start"
    /\ run > 1
    /\ ~hist.changed
    /\ \E s \in 1..Len(src) :
         src' = [src EXCEPT ![s][1].data = IF @ = 0 THEN 1 ELSE 0]
    /\ hist' = [hist EXCEPT !.changed = TRUE]
    /\ UNCHANGED <<config, pil, disk, css, sprites, pc, cur, err, io, run>>

Next ==
    \/ Construct
    \/ Validate
    \/ ManagerValidate
    \/ SaveImage
    \/ SaveCss
    \/ SaveHtml
    \/ NewRun
    \/ EditSource

Spec == Init /\ [][Next]_vars

SpecPack == InitPack /\ [][Next]_vars

SpecFault == InitFault /\ [][Next]_vars

SpecAsset == InitAsset /\ [][Next]_vars

----------------------------------------------------------------------------
(* Properties *)

Constructed == Len(sprites) > 0

SpriteIds == 1..Len(sprites)

ImageIds(s) == 1..Len(sprites[s].images)

Right(img) == img.x + absolute_width(img, config)

Bottom(img) == img.y + absolute_height(img, config)

Disjoint(a, b) ==
    \/ Right(a) <= b.x
    \/ Right(b) <= a.x
    \/ Bottom(a) <= b.y
    \/ Bottom(b) <= a.y

(* C1: after process() has completed, every x and y is a non-negative        *)
(* integer and the padded boxes of two distinct images do not intersect.     *)
C1_NoOverlap ==
    \A s \in SpriteIds :
       sprites[s].processed =>
          /\ \A i \in ImageIds(s) :
                sprites[s].images[i].x \in Nat /\ sprites[s].images[i].y \in Nat
          /\ \A i, j \in ImageIds(s) :
                i # j => Disjoint(sprites[s].images[i], sprites[s].images[j])

(* three images packed by the square algorithm, on more than one row and     *)
(* more than one column                                                      *)
C1_Witness ==
    /\ Constructed
    /\ config.algorithm = "square"
    /\ sprites[1].processed
    /\ Len(sprites[1].images) = 3
    /\ \E i \in ImageIds(1) : sprites[1].images[i].x > 0
    /\ \E i \in ImageIds(1) : sprites[1].images[i].y > 0

(* C2: once a sprite is processed, no later call changes the order of its    *)
(* image list or the x or y of an image.                                     *)
C2_ProcessOnce ==
    [][\A s \in SpriteIds :
          (Len(sprites') = Len(sprites) /\ sprites[s].processed)
             => /\ sprites'[s].processed
                /\ sprites'[s].images = sprites[s].images]_vars

(* save_image() and save_css() have both called process() on a sprite with   *)
(* two images of one ordering key                                            *)
C2_Witness ==
    /\ pc = "done"
    /\ sprites[1].processed
    /\ <<"css", 1>> \in io.wrote
    /\ <<"img", image_path(1, RatioScale)>> \in io.wrote
    /\ Len(sprites[1].images) >= 2
    /\ SortKey(sprites[1].images[1], config) = SortKey(sprites[1].images[2], config)

(* every ratio of the sprite has an artifact of this version and this hash *)
AllFresh(s) ==
    \A r \in Range(Ratios(config)) :
       /\ disk[image_path(s, r)].exists
       /\ disk[image_path(s, r)].software = Version
       /\ disk[image_path(s, r)].comment = sprite_hash(sprites[s].images, config)

(* C3: with force off and an up-to-date artifact for every ratio,             *)
(* save_image() decodes no image, does not process the sprite and writes no  *)
(* file.                                                                     *)
C3_FreshShortCircuit ==
    [][(pc = "save_image" /\ ~config.force /\ AllFresh(cur))
          => /\ sprites'[cur].images = sprites[cur].images
             /\ sprites'[cur].processed = sprites[cur].processed
             /\ disk' = disk
             /\ io'.wrote = io.wrote]_vars

(* save_image() has returned on up-to-date artifacts of two ratios or more *)
C3_Witness ==
    /\ pc = "save_css"
    /\ ~config.force /\ ~config.no_img
    /\ Len(Ratios(config)) > 1
    /\ AllFresh(cur)
    /\ ~sprites[cur].processed
    /\ \A i \in ImageIds(cur) : ~sprites[cur].images[i].decoded
    /\ io.wrote = {}

ImagesWritten == {w \in io.wrote : w[1] = "img"}

(* C4: every image artifact written carries the version and the sprite's     *)
(* hash; and a run after a completed run, on unchanged sources and           *)
(* configuration with force off, computes the hashes of the run before and   *)
(* writes no image artifact.                                                 *)
C4_Idempotent ==
    /\ \A w \in ImagesWritten :
          /\ disk[w[2]].exists
          /\ disk[w[2]].software = Version
          /\ disk[w[2]].comment = sprite_hash(sprites[w[2][1]].images, config)
    /\ (run > 1 /\ hist.ok /\ ~hist.changed /\ ~config.force)
          => /\ ImagesWritten = {}
             /\ \A s \in SpriteIds :
                   (sprites[s].hash # NoHash /\ hist.hashes[s] # NoHash)
                      => sprites[s].hash = hist.hashes[s]

(* the second run has ended on the artifacts of the first, which it read *)
C4_Witness ==
    /\ run = 2 /\ pc = "done"
    /\ hist.ok /\ ~hist.changed
    /\ ~config.force /\ ~config.no_img
    /\ \A s \in SpriteIds : AllFresh(s) /\ sprites[s].hash = hist.hashes[s]
    /\ io.opened

MaxRight(s) == SetMax({Right(sprites[s].images[i]) : i \in ImageIds(s)})

MaxBottom(s) == SetMax({Bottom(sprites[s].images[i]) : i \in ImageIds(s)})

(* C5: the canvas of a packed sprite is as wide as the rightmost padded box  *)
(* and as high as the lowest: every box is inside it, one touches its right  *)
(* edge and one its bottom edge.                                             *)
C5_CanvasTight ==
    \A s \in SpriteIds :
       sprites[s].processed =>
          \E c \in {canvas_size(sprites[s].images, config)} :
             /\ c = <<MaxRight(s), MaxBottom(s)>>
             /\ \A i \in ImageIds(s) :
                   /\ Right(sprites[s].images[i]) <= c[1]
                   /\ Bottom(sprites[s].images[i]) <= c[2]
             /\ \E i \in ImageIds(s) : Right(sprites[s].images[i]) = c[1]
             /\ \E i \in ImageIds(s) : Bottom(sprites[s].images[i]) = c[2]

(* a packed sprite of three images whose artifact has the canvas's size *)
C5_Witness ==
    /\ Constructed
    /\ sprites[1].processed
    /\ Len(sprites[1].images) = 3
    /\ disk[image_path(1, max_ratio(config))].exists
    /\ disk[image_path(1, max_ratio(config))].size = <<MaxRight(1), MaxBottom(1)>>

Permuted(imgs, p) == [i \in 1..Len(imgs) |-> imgs[p[i]]]

ConfigInvalid ==
    \/ config.algorithm \notin ALGORITHMS
    \/ OrderingKey(config) \notin ORDERINGS

(* C7: with an unknown algorithm or an unknown ordering no sprite, of any    *)
(* number of images, is ever processed and no image ever has a position.     *)
C7_RejectsUnknown ==
    ConfigInvalid =>
       \A s \in SpriteIds :
          /\ ~sprites[s].processed
          /\ \A i \in ImageIds(s) :
                sprites[s].images[i].x = None /\ sprites[s].images[i].y = None

(* C8: in a run with an unknown algorithm or ordering no source file is      *)
(* read, no artifact is opened and no file is written.                       *)
C8_ErrorBeforeIO ==
    ConfigInvalid => (~io.read /\ ~io.opened /\ io.wrote = {})

(* C9: in the sorted list of a processed sprite, two images of one ordering  *)
(* key are in the order of the directory scan (the order of their paths).    *)
C9_StableSort ==
    \A s \in SpriteIds :
       (sprites[s].processed /\ Len(sprites[s].images) >= 2) =>
          \A i, j \in ImageIds(s) :
             (i < j /\ SortKey(sprites[s].images[i], config)
                         = SortKey(sprites[s].images[j], config))
                => sprites[s].images[i].path < sprites[s].images[j].path

(* the images, of every sprite, whose class name another image has *)
SharedImages ==
    {e \in {<<s, i>> : s \in SpriteIds, i \in 1..MaxImages} :
        /\ e[2] \in ImageIds(e[1])
        /\ \E t \in SpriteIds : \E j \in ImageIds(t) :
              /\ <<t, j>> # e
              /\ class_name(sprites[t].images[j], sprites[t].name, config)
                   = class_name(sprites[e[1]].images[e[2]], sprites[e[1]].name, config)}

(* C10: save() goes on to save the sprites only when no two images share a   *)
(* class name, and the error it raises otherwise carries every image, of     *)
(* every sprite, whose class name another image has.                         *)
C10_ReportsEveryDuplicate ==
    /\ pc \in {"save_image", "save_css", "save_html", "done"} => SharedImages = {}
    /\ err.kind = "MultipleImagesWithSameNameError"
          => Range(err.dup)
               = {<<e[1], sprites[e[1]].images[e[2]].path>> : e \in SharedImages}

(* the artifact of a ratio of a sprite is whole and of this run's hash *)
Complete(s, r) ==
    /\ disk[image_path(s, r)].exists
    /\ disk[image_path(s, r)].readable
    /\ disk[image_path(s, r)].software = Version
    /\ disk[image_path(s, r)].comment = sprite_hash(sprites[s].images, config)

(* C11: when the write of one ratio's bitmap fails in save_image(), every    *)
(* other ratio of the sprite still ends with a complete artifact.            *)
C11_WriteFailureIsolated ==
    (pc = "failed" /\ err.kind = "IOError") =>
       \A r \in Range(Ratios(config)) :
          ~disk[image_path(cur, r)].locked => Complete(cur, r)

(* C12: a sprite with a source file that cannot be decoded is never          *)
(* processed, no bitmap is made of its canvas, no image artifact and no      *)
(* stylesheet of it is written, and the run does not go past it.             *)
C12_DecodeAborts ==
    \A s \in SpriteIds :
       (\E i \in ImageIds(s) : ~Decodable(sprites[s].images[i])) =>
          /\ ~sprites[s].processed
          /\ \A b \in io.bitmaps : b.sprite # s
          /\ \A w \in io.wrote : ~(w[1] = "img" /\ w[2][1] = s) /\ w # <<"css", s>>
          /\ ~config.no_css =>
                /\ pc # "done"
                /\ ~(pc = "save_html" /\ cur = s)
                /\ ~(pc \in {"save_image", "save_css", "save_html"} /\ cur > s)

(* the run has written the first sprite and failed at the second, which has  *)
(* a file that is not an image                                               *)
C12_Witness ==
    /\ pc = "failed" /\ cur = 2
    /\ err.kind = "PILUnavailableError"
    /\ \E i \in ImageIds(2) : ~Decodable(sprites[2].images[i])
    /\ <<"css", 1>> \in io.wrote
    /\ \E r \in Range(Ratios(config)) : disk[image_path(2, r)].exists

(* the artifact of a ratio fails the freshness check of save_image *)
Stale(s, r) == config.force \/ ~Complete(s, r)

CssStale(s) ==
    \/ config.force
    \/ ~css[s].exists
    \/ css[s].line # <<Version, sprite_hash(sprites[s].images, config)>>

(* C13: when the artifact of a ratio is missing, unreadable, without         *)
(* Software or Comment, or of another version or digest, save_image() raises *)
(* no exception of the check: it fails only where process() or a write       *)
(* fails, and otherwise returns with the ratio regenerated.  The same for    *)
(* the stylesheet in save_css().                                             *)
C13_CheckFailureIsMiss ==
    [][/\ (pc = "save_image" /\ ~config.no_img) =>
            \A r \in Range(Ratios(config)) :
               Stale(cur, r) =>
                  /\ err'.kind \notin {"AssertionError", "KeyError"}
                  /\ err'.kind = "IOError" =>
                        \E q \in Range(Ratios(config)) :
                           Stale(cur, q) /\ disk[image_path(cur, q)].locked
                  /\ err'.kind = "none" =>
                        /\ <<"img", image_path(cur, r)>> \in io'.wrote
                        /\ disk'[image_path(cur, r)]
                             = Saved(sprite_hash(sprites[cur].images, config),
                                     disk'[image_path(cur, r)].size)
       /\ (pc = "save_css" /\ ~config.no_css /\ CssStale(cur)) =>
            /\ err'.kind \notin {"AssertionError", "KeyError", "IOError"}
            /\ err'.kind = "none" => <<"css", cur>> \in io'.wrote]_vars

(* save_image() has returned after its checks failed on an unreadable file,  *)
(* on a missing file and on a file without the Software text, and the three  *)
(* ratios are regenerated                                                    *)
C13_Witness ==
    /\ pc = "save_css" /\ err = NoErr
    /\ ~config.force
    /\ \E k \in {"KeyError", "AssertionError"} : <<cur, 100, k>> \in io.caught
    /\ <<cur, 150, "IOError">> \in io.caught
    /\ <<cur, 200, "IOError">> \in io.caught
    /\ disk[image_path(cur, 150)].size # disk[image_path(cur, 200)].size
    /\ \A r \in Range(Ratios(config)) :
          <<"img", image_path(cur, r)>> \in io.wrote /\ Complete(cur, r)

Expanded(p) ==
    CASE Len(p) = 1 -> <<p[1], p[1], p[1], p[1]>>
      [] Len(p) = 2 -> <<p[1], p[2], p[1], p[2]>>
      [] Len(p) = 3 -> <<p[1], p[2], p[3], p[2]>>
      [] Len(p) = 4 -> <<p[1], p[2], p[3], p[4]>>

(* C15: the padding of an image is its filename's list of one to four        *)
(* numbers expanded as [a] -> (a,a,a,a), [a,b] -> (a,b,a,b),                 *)
(* [a,b,c] -> (a,b,c,b), [a,b,c,d] -> (a,b,c,d); with no list, or a list     *)
(* that is not one to four numbers (or filename paddings ignored), it is the *)
(* configured padding of the sprite expanded by the same rule.               *)
C15_PaddingExpansion ==
    \A s \in SpriteIds : \A i \in ImageIds(s) :
       Len(config.padding) \in 1..4 =>
          padding(sprites[s].images[i], config)
            = IF Len(sprites[s].images[i].pad) \in 1..4
                 /\ ~config.ignore_filename_paddings
              THEN Expanded(sprites[s].images[i].pad)
              ELSE Expanded(config.padding)

(* cow_1-2-3-4-5.png under the configured padding "6 8" is packed with       *)
(* (6, 8, 6, 8), and its artifact is 1 + 16 * 1.5 wide and 1 + 12 * 1.5 high *)
C15_Witness ==
    /\ Constructed
    /\ sprites[1].processed
    /\ sprites[1].images[1].pad = <<1, 2, 3, 4, 5>>
    /\ config.padding = <<6, 8>>
    /\ padding(sprites[1].images[1], config) = <<6, 8, 6, 8>>
    /\ disk[image_path(1, 150)].size = <<25, 19>>

(* the pixels of a bitmap that are not fully transparent *)
Visible(img) == Pixels(img.width, img.height) \ (img.clear \cup img.hidden)

(* C16: with the crop, the content of a decoded image with a pixel that is   *)
(* not fully transparent is the box of those pixels: each of them is in the  *)
(* box and each edge of the box holds one of them.                           *)
C16_CropMinimal ==
    \A s \in SpriteIds : \A i \in ImageIds(s) :
       (config.crop /\ sprites[s].images[i].decoded
          /\ Visible(sprites[s].images[i]) # {}) =>
          \E b \in {crop_box(sprites[s].images[i])} :
             /\ image_size(sprites[s].images[i], config) = <<b[3] - b[1], b[4] - b[2]>>
             /\ \A q \in Visible(sprites[s].images[i]) :
                   b[1] <= q[1] /\ q[1] < b[3] /\ b[2] <= q[2] /\ q[2] < b[4]
             /\ \E q \in Visible(sprites[s].images[i]) : q[1] = b[1]
             /\ \E q \in Visible(sprites[s].images[i]) : q[1] = b[3] - 1
             /\ \E q \in Visible(sprites[s].images[i]) : q[2] = b[2]
             /\ \E q \in Visible(sprites[s].images[i]) : q[2] = b[4] - 1

(* C17: with the crop, the content of a decoded image whose every pixel is   *)
(* fully transparent has the width and the height of the decoded bitmap.     *)
C17_TransparentKept ==
    \A s \in SpriteIds : \A i \in ImageIds(s) :
       (config.crop /\ sprites[s].images[i].decoded
          /\ Visible(sprites[s].images[i]) = {}) =>
          image_size(sprites[s].images[i], config)
            = <<sprites[s].images[i].width, sprites[s].images[i].height>>

(* C18: save() writes nothing before every sprite has been validated and   *)
(* the class names have been compared across the sprites: while it           *)
(* validates, and when a validation has failed, no image, stylesheet or html *)
(* file of any sprite is written and no artifact has been opened; a file is  *)
(* written only when no two images of the manager share a class name.        *)
C18_ValidateBeforeSave ==
    /\ pc \in {"start", "validate", "manager_validate"} =>
          (io.wrote = {} /\ ~io.opened)
    /\ err.kind = "MultipleImagesWithSameNameError" =>
          (io.wrote = {} /\ ~io.opened /\ io.bitmaps = {})
    /\ io.wrote # {} => SharedImages = {}

(* two sprites that are valid one by one share a class name: the second run  *)
(* fails as the first did, with nothing written and nothing on the disk      *)
C18_Witness ==
    /\ pc = "failed" /\ run = 2
    /\ err.kind = "MultipleImagesWithSameNameError"
    /\ Len(sprites) = 2
    /\ \A s \in SpriteIds : SpriteDup(sprites[s], config) = <<>>
    /\ SharedImages # {}
    /\ io.wrote = {}
    /\ \A p \in DOMAIN disk : ~disk[p].exists

(* the image files that a step writes *)
NewlyWritten == {w \in io'.wrote \ io.wrote : w[1] = "img"}

(* C19: save_image() leaves the file of every ratio whose artifact is up to *)
(* date as it is, writes no file but those of the other ratios of the        *)
(* sprite, and, when it returns, has written the file of each of them.       *)
C19_WritesExactlyStale ==
    [][(pc = "save_image" /\ ~config.no_img) =>
          /\ \A r \in Range(Ratios(config)) :
                ~Stale(cur, r) =>
                   /\ disk'[image_path(cur, r)] = disk[image_path(cur, r)]
                   /\ <<"img", image_path(cur, r)>> \notin NewlyWritten
          /\ NewlyWritten \subseteq
                {<<"img", image_path(cur, r)>> :
                   r \in {q \in Range(Ratios(config)) : Stale(cur, q)}}
          /\ \A p \in DOMAIN disk :
                <<"img", p>> \notin NewlyWritten => disk'[p] = disk[p]
          /\ err'.kind = "none" =>
                NewlyWritten =
                   {<<"img", image_path(cur, r)>> :
                      r \in {q \in Range(Ratios(config)) : Stale(cur, q)}}]_vars

(* save_image() has regenerated one ratio of a sprite and left the           *)
(* up-to-date file of another ratio as it found it                           *)
C19_Witness ==
    /\ pc = "save_css" /\ err = NoErr
    /\ ~config.force
    /\ \E r1, r2 \in Range(Ratios(config)) :
          /\ <<"img", image_path(cur, r1)>> \in io.wrote
          /\ disk[image_path(cur, r1)].size # <<1, 1>>
          /\ <<"img", image_path(cur, r2)>> \notin io.wrote
          /\ disk[image_path(cur, r2)]
               = Saved(sprite_hash(sprites[cur].images, config), <<1, 1>>)

(* C20: two bitmaps that save_image() saves for two ratios of a sprite are   *)
(* saved at two paths.                                                       *)
C20_DistinctPaths ==
    \A b1, b2 \in io.bitmaps :
       (b1.sprite = b2.sprite /\ b1.ratio # b2.ratio) =>
          image_path(b1.sprite, b1.ratio) # image_path(b2.sprite, b2.ratio)

====
